---- MODULE Spec2Model ----
(***************************************************************************)
(* Timestamp chain VM (hitrich/AVM-TEST): block.go, virtualMachine.go,     *)
(* service.go.  The VM keeps a FIFO mempool of 32-byte payloads, builds    *)
(* blocks on the preferred tip, and Block.Verify validates a block's       *)
(* timestamp against its parent's and the wall clock before persisting it. *)
(*                                                                         *)
(* The database is a versioned database: puts land in a pending layer      *)
(* (vdb) and Commit flushes the layer into the committed database (db).    *)
(* A block's identity is derived from its byte representation; the model   *)
(* uses the byte representation itself as the identity.                    *)
(***************************************************************************)
EXTENDS Integers, Sequences, FiniteSets, TLC

\* ---------------------------------------------------------------- bounds
MaxNow == 2          \* the wall clock runs over 1..MaxNow seconds
MaxMempool == 2      \* proposals are accepted while the mempool is shorter
MaxBlocks == 2       \* Verify is exercised while the store holds fewer blocks
ChanCap == 1         \* capacity of the toEngine channel handed to Initialize

\* ------------------------------------------------------ program constants
dataLen == 32        \* Block.Data is [32]byte
Hour == 3600         \* time.Hour, in seconds

\* ------------------------------------------------------------ error kinds
Nil == "nil"
InvalidGenesisData == "InvalidGenesisData"
ParentLookupError == "ParentLookupError"
TimestampTooEarly == "TimestampTooEarly"
TimestampTooLate == "TimestampTooLate"
EmptyMempool == "EmptyMempool"
SerializationError == "SerializationError"
DeserializationError == "DeserializationError"
PersistenceError == "PersistenceError"

\* ------------------------------------------------------------- byte data
\* A byte slice is a sequence of bytes.  A [dataLen]byte array is written
\* without its trailing zero bytes: <<1>> is the array of a 1 followed by 31
\* zeros, <<>> the array of 32 zeros.  Two arrays are equal exactly when
\* their written forms are.
Rep(n, v) == [i \in 1..n |-> v]

RECURSIVE TrimZeros(_)
TrimZeros(bytes) ==
  IF bytes # <<>> /\ bytes[Len(bytes)] = 0
  THEN TrimZeros(SubSeq(bytes, 1, Len(bytes) - 1))
  ELSE bytes

\* var arr [dataLen]byte; copy(arr[:], bytes): the first dataLen bytes of
\* the slice, the rest of the array left zero
CopyToArr(bytes) ==
  TrimZeros(SubSeq(bytes, 1, IF Len(bytes) < dataLen THEN Len(bytes) ELSE dataLen))

ZeroArr == CopyToArr(<<>>)

\* Payloads clients propose, and the payload of the blocks of peers
Payloads == {CopyToArr(<<1>>), CopyToArr(<<2>>)}

PeerPayload == CopyToArr(<<3>>)

\* Genesis payloads: 32 zero bytes, a short payload, an over-long payload
GenesisInputs == {Rep(dataLen, 0), Rep(1, 0), Rep(dataLen + 1, 1)}

\* The boundary a call finds failing, if any: the codec's Marshal, the
\* database's put, or the database's Commit.
Faults == {"none", "marshal", "put", "commit"}

\* ---------------------------------------------------------------- blocks
\* ids.Empty, the zero identity
Empty == <<>>

\* codec.Marshal(block): the serialized fields, in declaration order
Marshal(parentID, data, ts) == <<parentID, data, ts>>

Malformed == <<0>>

\* codec.Unmarshal(bytes, block): fills the fields, or fails and leaves the
\* zero block
Unmarshal(bytes) ==
  IF Len(bytes) = 3
  THEN [err |-> Nil, parent |-> bytes[1], data |-> bytes[2], ts |-> bytes[3]]
  ELSE [err |-> DeserializationError, parent |-> Empty,
        data |-> ZeroArr, ts |-> 0]

\* In-memory block: its fields plus the identity fixed by Block.Initialize
\* from the byte representation.
MkBlock(bytes, parentID, data, ts) ==
  [id |-> bytes, parent |-> parentID, data |-> data, ts |-> ts]

\* -------------------------------------------------------------- database
EmptyLayer ==
  [blocks |-> {}, accepted |-> {}, lastAccepted |-> Empty, initialized |-> FALSE]

\* What a read through the versioned database sees: pending over committed.
Overlay(pending, committed) ==
  [blocks |-> committed.blocks \cup pending.blocks,
   accepted |-> committed.accepted \cup pending.accepted,
   lastAccepted |-> IF pending.lastAccepted # Empty THEN pending.lastAccepted
                    ELSE committed.lastAccepted,
   initialized |-> committed.initialized \/ pending.initialized]

VARIABLES now, mempool, toEngine, preferred, lastAccepted, vdb, db, last,
          owed, taken, api

vars == <<now, mempool, toEngine, preferred, lastAccepted, vdb, db, last,
          owed, taken, api>>

\* What the VM itself does not hold: the history of proposals (owed), the
\* readiness messages the engine has taken and not yet answered (taken), and
\* the position of a proposeBlock call in progress (api).
env == <<owed, taken, api>>

View == Overlay(vdb, db)

\* vm.GetBlock(id): the stored bytes parsed back into a block
HasBlock(layer, id) == id \in layer.blocks
GetBlock(id) == LET u == Unmarshal(id) IN MkBlock(id, u.parent, u.data, u.ts)

\* b.Status() == choices.Accepted
IsAccepted(layer, id) == id \in layer.accepted

\* The last call: the operation, its argument, the error and the block it
\* returned, and the boundary calls it made, in order.
Result(op, arg, err, blk, trace) ==
  [op |-> op, arg |-> arg, err |-> err, blk |-> blk, trace |-> trace]

Init ==
  /\ now = 1
  /\ mempool = <<>>
  /\ toEngine = 0
  /\ preferred = Empty
  /\ lastAccepted = Empty
  /\ vdb = EmptyLayer
  /\ db = EmptyLayer
  /\ last = Result("Init", <<>>, Nil, <<>>, <<>>)
  /\ owed = <<>>
  /\ taken = 0
  /\ api = <<>>

\* ------------------------------------------------------- core.SnowmanVM
\* NotifyBlockReady: a non-blocking send on toEngine; the message is dropped
\* when the channel is full.
NotifyBlockReady(ch) == IF ch < ChanCap THEN ch + 1 ELSE ch

\* SaveBlock(db, block): put the block's bytes under its identity
SaveBlock(layer, blk) == [layer EXCEPT !.blocks = @ \cup {blk.id}]

\* block.Accept(): the block becomes Accepted and the last accepted block
AcceptWrites(layer, blk) ==
  [layer EXCEPT !.accepted = @ \cup {blk.id}, !.lastAccepted = blk.id]

\* Variant: the flag is never written.
SetDBInitialized_skipped(layer) == layer

\* SetDBInitialized()
SetDBInitialized(layer) == [layer EXCEPT !.initialized = TRUE]

\* DB.Commit(): flush the pending layer into the committed database
Commit(pending, committed) == Overlay(pending, committed)

\* ------------------------------------------------------------ VM.NewBlock
NewBlock(parentID, data, timestamp, fault) ==
  IF fault # "marshal"
  THEN [err |-> Nil,
        blk |-> <<MkBlock(Marshal(parentID, data, timestamp), parentID, data, timestamp)>>]
  ELSE [err |-> SerializationError, blk |-> <<>>]

\* ---------------------------------------------------------- VM.Initialize
\* Variant: the flag is never consulted.
DBInitialized_ignored(layer) == FALSE

\* vm.DBInitialized(), read through the database wrapped at line 41
DBInitialized(layer) == layer.initialized

\* Variant: an off-by-one length check.
GenesisTooLong_offByOne(genesisData) == Len(genesisData) > 33

\* len(genesisData) > 32
GenesisTooLong(genesisData) == Len(genesisData) > 32

\* Line 41 wraps the database handed in (nothing pending) and, on an
\* initialized database, pulls lastAccepted and preferred from it.
Initialize(genesisData, fault) ==
  LET inited == DBInitialized(db)
      la0 == IF inited THEN db.lastAccepted ELSE lastAccepted
      pf0 == IF inited THEN db.lastAccepted ELSE preferred
      nb == NewBlock(Empty, CopyToArr(genesisData), 0, fault)
      g == nb.blk[1]
      written == SetDBInitialized(AcceptWrites(SaveBlock(EmptyLayer, g), g))
  IN
  /\ UNCHANGED <<now, mempool, toEngine>>
  /\ IF inited
     THEN /\ vdb' = EmptyLayer
          /\ db' = db
          /\ lastAccepted' = la0
          /\ preferred' = pf0
          /\ last' = Result("Initialize", genesisData, Nil, <<>>, <<>>)
     ELSE IF GenesisTooLong(genesisData)
     THEN /\ vdb' = EmptyLayer
          /\ db' = db
          /\ lastAccepted' = la0
          /\ preferred' = pf0
          /\ last' = Result("Initialize", genesisData, InvalidGenesisData, <<>>, <<>>)
     ELSE IF nb.err # Nil
     THEN /\ vdb' = EmptyLayer
          /\ db' = db
          /\ lastAccepted' = la0
          /\ preferred' = pf0
          /\ last' = Result("Initialize", genesisData, nb.err, <<>>, <<"Marshal">>)
     ELSE IF fault = "put"
     THEN /\ vdb' = EmptyLayer
          /\ db' = db
          /\ lastAccepted' = la0
          /\ preferred' = pf0
          /\ last' = Result("Initialize", genesisData, PersistenceError, <<>>,
                            <<"Marshal", "SaveBlock">>)
     ELSE /\ lastAccepted' = g.id
          /\ preferred' = g.id
          /\ IF fault # "commit"
             THEN /\ db' = Commit(written, db)
                  /\ vdb' = EmptyLayer
                  /\ last' = Result("Initialize", genesisData, Nil, <<g>>,
                        <<"Marshal", "SaveBlock", "Accept", "SetDBInitialized", "Commit">>)
             ELSE /\ db' = db
                  /\ vdb' = written
                  /\ last' = Result("Initialize", genesisData, PersistenceError, <<g>>,
                        <<"Marshal", "SaveBlock", "Accept", "SetDBInitialized", "Commit">>)

\* -------------------------------------------------------- VM.proposeBlock
\* vm.mempool = append(vm.mempool, data); vm.NotifyBlockReady()
AppendAndNotify(data) ==
  /\ Len(mempool) < MaxMempool
  /\ mempool' = Append(mempool, data)
  /\ toEngine' = NotifyBlockReady(toEngine)
  /\ UNCHANGED <<now, preferred, lastAccepted, vdb, db>>

proposeBlock(data) ==
  /\ AppendAndNotify(data)
  /\ last' = Result("proposeBlock", <<>>, Nil, <<>>, <<"NotifyBlockReady">>)

\* ---------------------------------------------------------- VM.BuildBlock
\* len(vm.mempool) == 0
NothingToPropose(q) == Len(q) = 0

\* Variant: the newest entry is taken.
Front_newest(q) == q[Len(q)]

\* value := vm.mempool[0]
Front(q) == q[1]

\* vm.mempool = vm.mempool[1:]
PopFront(q) == Tail(q)

\* Variant: the deferred notification is registered before the check.
BuildNothing_notifies ==
  /\ last' = Result("BuildBlock", <<>>, EmptyMempool, <<>>, <<"NotifyBlockReady">>)
  /\ toEngine' = NotifyBlockReady(toEngine)
  /\ UNCHANGED <<now, mempool, preferred, lastAccepted, vdb, db>>

\* return nil, errors.New("there is no block to propose")
BuildNothing ==
  /\ last' = Result("BuildBlock", <<>>, EmptyMempool, <<>>, <<>>)
  /\ UNCHANGED <<now, mempool, toEngine, preferred, lastAccepted, vdb, db>>

\* Variant: the block built becomes the preferred tip.
BuildBlock_prefersBuilt(fault) ==
  IF NothingToPropose(mempool)
  THEN BuildNothing
  ELSE LET value == Front(mempool)
           rest == PopFront(mempool)
           more == Len(rest) > 0
           nb == NewBlock(preferred, value, now, fault)
       IN /\ mempool' = rest
          /\ toEngine' = IF more THEN NotifyBlockReady(toEngine) ELSE toEngine
          /\ last' = Result("BuildBlock", <<>>, nb.err, nb.blk,
                        IF more THEN <<"Marshal", "NotifyBlockReady">>
                        ELSE <<"Marshal">>)
          /\ preferred' = IF nb.err = Nil THEN nb.blk[1].id ELSE preferred
          /\ UNCHANGED <<now, lastAccepted, vdb, db>>

BuildBlock(fault) ==
  IF NothingToPropose(mempool)
  THEN BuildNothing
  ELSE LET value == Front(mempool)
           rest == PopFront(mempool)
           more == Len(rest) > 0
           nb == NewBlock(preferred, value, now, fault)
       IN /\ mempool' = rest
          /\ toEngine' = IF more THEN NotifyBlockReady(toEngine) ELSE toEngine
          /\ last' = Result("BuildBlock", <<>>, nb.err, nb.blk,
                        IF more THEN <<"Marshal", "NotifyBlockReady">>
                        ELSE <<"Marshal">>)
          /\ UNCHANGED <<now, preferred, lastAccepted, vdb, db>>

\* ---------------------------------------------------------- VM.ParseBlock
ParseBlock(bytes) ==
  LET u == Unmarshal(bytes)
      blk == MkBlock(bytes, u.parent, u.data, u.ts)
  IN /\ last' = Result("ParseBlock", bytes, u.err, <<blk>>, <<"Unmarshal">>)
     /\ UNCHANGED <<now, mempool, toEngine, preferred, lastAccepted, vdb, db>>

\* A missing parent: an identity no block of the store has
UnknownID == Marshal(Empty, ZeroArr, 1)

\* Byte strings a peer may send: the encoding of a block, and bytes that do
\* not decode.
ParseInputs == {Marshal(UnknownID, PeerPayload, 1), Malformed}

\* ------------------------------------------------------------ Block.Verify
\* Variant: the accepted status is not consulted.
AlreadyAccepted_unchecked(b) == FALSE

\* accepted, err := b.Block.Verify(): accepted iff the status is Accepted
AlreadyAccepted(b) == IsAccepted(View, b.id)

\* b.Timestamp < time.Unix(parent.Timestamp, 0).Unix()
BeforeParent(b, parent) == b.ts < parent.ts

\* b.Timestamp >= time.Now().Add(time.Hour).Unix()
TooFarAhead(b) == b.ts >= now + Hour

\* Variant: the block is put before it is validated.
Invalid_afterPut(b, err) ==
  /\ last' = Result("Verify", b, err, <<>>, <<"Parent", "SaveBlock">>)
  /\ vdb' = SaveBlock(vdb, b)
  /\ db' = db

\* return errors.New(...): the returns of the validation failures, all
\* ahead of SaveBlock and Commit
Invalid(b, err) ==
  /\ last' = Result("Verify", b, err, <<>>, <<"Parent">>)
  /\ UNCHANGED <<vdb, db>>

Verify(b, fault) ==
  IF AlreadyAccepted(b)
  THEN /\ last' = Result("Verify", b, Nil, <<>>, <<>>)
       /\ UNCHANGED <<vdb, db>>
  ELSE IF ~HasBlock(View, b.parent)
  THEN Invalid(b, ParentLookupError)
  ELSE LET parent == GetBlock(b.parent)
           saved == IF fault # "put" THEN SaveBlock(vdb, b) ELSE vdb
       IN IF BeforeParent(b, parent)
          THEN Invalid(b, TimestampTooEarly)
          ELSE IF TooFarAhead(b)
          THEN Invalid(b, TimestampTooLate)
          ELSE IF fault # "commit"
          THEN /\ db' = Commit(saved, db)
               /\ vdb' = EmptyLayer
               /\ last' = Result("Verify", b, Nil, <<>>,
                                 <<"Parent", "SaveBlock", "Commit">>)
          ELSE /\ db' = db
               /\ vdb' = saved
               /\ last' = Result("Verify", b, PersistenceError, <<>>,
                                 <<"Parent", "SaveBlock", "Commit">>)

\* ------------------------------------------------------ consensus engine
\* Timestamps around the parent's, and up to one hour ahead of the clock
Timestamps(parentID) ==
  {parentID[3] - 1, parentID[3], Hour, now + Hour}

\* Blocks the engine may hold: the block BuildBlock has just returned,
\* parsed blocks of peers on the preferred tip or on a missing parent, and
\* the last accepted block.
VerifyInputs ==
  (IF last.op = "BuildBlock" /\ last.err = Nil THEN {last.blk[1]} ELSE {})
  \cup {GetBlock(Marshal(preferred, PeerPayload, t)) :
          t \in IF preferred \in View.blocks THEN Timestamps(preferred) ELSE {}}
  \cup {GetBlock(Marshal(UnknownID, PeerPayload, now))}
  \cup {GetBlock(id) : id \in {lastAccepted} \cap View.accepted}

\* The engine verifies a block it holds.  It decides one block at a time:
\* no new block enters the store while a stored block awaits its decision.
EngineVerify(b, fault) ==
  /\ Verify(b, fault)
  /\ LET after == Overlay(vdb', db')
     IN /\ Cardinality(after.blocks) <= MaxBlocks
        /\ after.blocks \subseteq View.blocks \/ View.blocks \subseteq View.accepted
  /\ UNCHANGED <<now, mempool, toEngine, preferred, lastAccepted>>

\* The engine finalizes a stored block, in chain order.
EngineAccept(b) ==
  /\ b.parent = lastAccepted
  /\ ~IsAccepted(View, b.id)
  /\ db' = Commit(AcceptWrites(vdb, b), db)
  /\ vdb' = EmptyLayer
  /\ lastAccepted' = b.id
  /\ preferred' = b.id
  /\ last' = Result("Accept", b, Nil, <<>>, <<"Accept", "Commit">>)
  /\ UNCHANGED <<now, mempool, toEngine>>

\* The engine takes one readiness message off the channel.
EngineReceive ==
  /\ toEngine > 0
  /\ toEngine' = toEngine - 1
  /\ last' = Result("Receive", <<>>, Nil, <<>>, <<>>)
  /\ UNCHANGED <<now, mempool, preferred, lastAccepted, vdb, db>>

\* One second of wall-clock time passes.
Tick ==
  /\ now < MaxNow
  /\ now' = now + 1
  /\ last' = Result("Tick", <<>>, Nil, <<>>, <<>>)
  /\ UNCHANGED <<mempool, toEngine, preferred, lastAccepted, vdb, db>>

\* A failing boundary is drawn only for the calls that reach a boundary.
DoInitialize ==
  \E g \in GenesisInputs :
    \E fault \in IF db.initialized \/ Len(g) > 32 THEN {"none"} ELSE Faults :
      Initialize(g, fault) /\ UNCHANGED env

DoProposeBlock == \E d \in Payloads : proposeBlock(d) /\ UNCHANGED env

DoBuildBlock ==
  \E fault \in IF mempool = <<>> THEN {"none"} ELSE {"none", "marshal"} :
    BuildBlock(fault) /\ UNCHANGED env

DoParseBlock == \E bytes \in ParseInputs : ParseBlock(bytes) /\ UNCHANGED env

DoVerify ==
  \E b \in VerifyInputs :
    \E fault \in IF b.parent \in View.blocks THEN {"none", "put", "commit"}
                 ELSE {"none"} :
      EngineVerify(b, fault) /\ UNCHANGED env

DoAccept == \E id \in View.blocks : EngineAccept(GetBlock(id)) /\ UNCHANGED env

DoReceive == EngineReceive /\ UNCHANGED env

DoTick == Tick /\ UNCHANGED env

Next ==
  \/ DoInitialize
  \/ DoProposeBlock
  \/ DoBuildBlock
  \/ DoParseBlock
  \/ DoVerify
  \/ DoAccept
  \/ DoReceive
  \/ DoTick

Spec == Init /\ [][Next]_vars

\* ------------------------------------------------- proposals and builds
\* The same VM with the proposals kept in a history: owed is the sequence of
\* payloads proposed so far without those that the successful BuildBlock
\* calls so far answer, one each, in order.  Its head is the k-th payload
\* proposed when k-1 BuildBlock calls have succeeded.
TrackedPropose ==
  \E d \in Payloads :
    /\ Len(owed) < MaxMempool
    /\ proposeBlock(d)
    /\ owed' = Append(owed, d)
    /\ UNCHANGED <<taken, api>>

TrackedBuild ==
  \E fault \in IF mempool = <<>> THEN {"none"} ELSE {"none", "marshal"} :
    /\ BuildBlock(fault)
    /\ owed' = IF last'.err = Nil /\ owed # <<>> THEN Tail(owed) ELSE owed
    /\ UNCHANGED <<taken, api>>

NextFifo ==
  \/ DoInitialize
  \/ TrackedPropose
  \/ TrackedBuild
  \/ DoReceive
  \/ DoTick

SpecFifo == Init /\ [][NextFifo]_vars

\* --------------------------------------------------- Service.ProposeBlock
errBadData == "errBadData"

\* formatting.CB58: the string form of a byte slice carries a checksum of
\* the bytes after them.  The model writes a string as the bytes it encodes
\* followed by the checksum.
RECURSIVE SumBytes(_)
SumBytes(bytes) == IF bytes = <<>> THEN 0 ELSE bytes[1] + SumBytes(Tail(bytes))

Checksum(bytes) == (SumBytes(bytes) + Len(bytes) + 1) % 256

CB58String(bytes) == Append(bytes, Checksum(bytes))

\* byteFormatter.FromString(str): the bytes, or an error when the string is
\* too short to hold a checksum or the checksum does not match
FromString(str) ==
  IF Len(str) = 0
  THEN [err |-> TRUE, bytes |-> <<>>]
  ELSE LET body == SubSeq(str, 1, Len(str) - 1)
       IN IF str[Len(str)] # Checksum(body)
          THEN [err |-> TRUE, bytes |-> <<>>]
          ELSE [err |-> FALSE, bytes |-> body]

\* array[:], the dataLen bytes of an array
Slice(arr) == [i \in 1..dataLen |-> IF i <= Len(arr) THEN arr[i] ELSE 0]

\* Strings a client may send: two 32-byte payloads, a payload one byte
\* short, a payload one byte long, a string with a wrong checksum, and the
\* empty string
ApiInputs ==
  {CB58String(Slice(d)) : d \in Payloads}
  \cup {CB58String(Rep(dataLen - 1, 1)), CB58String(Rep(dataLen + 1, 1)),
        Append(Rep(dataLen, 1), Checksum(Rep(dataLen, 1)) + 1), <<>>}

\* Variant: only a short payload is refused.
BadLength_onlyShorter(dataSlice) == Len(dataSlice) < 32

\* len(dataSlice) != 32
BadLength(dataSlice) == Len(dataSlice) # 32

ServiceProposeBlock(str) ==
  LET f == FromString(str)
  IN IF f.err
     THEN /\ last' = Result("ProposeBlock", str, errBadData, <<>>, <<"FromString">>)
          /\ UNCHANGED <<now, mempool, toEngine, preferred, lastAccepted, vdb, db>>
     ELSE IF BadLength(f.bytes)
     THEN /\ last' = Result("ProposeBlock", str, errBadData, <<>>, <<"FromString">>)
          /\ UNCHANGED <<now, mempool, toEngine, preferred, lastAccepted, vdb, db>>
     ELSE /\ AppendAndNotify(CopyToArr(SubSeq(f.bytes, 1, dataLen)))
          /\ last' = Result("ProposeBlock", str, Nil, <<>>,
                            <<"FromString", "proposeBlock">>)

ApiProposeBlock == \E str \in ApiInputs : ServiceProposeBlock(str) /\ UNCHANGED env

\* The VM with its API: clients propose through Service.ProposeBlock.
NextApi ==
  \/ DoInitialize
  \/ ApiProposeBlock
  \/ DoBuildBlock
  \/ DoReceive
  \/ DoTick

SpecApi == Init /\ [][NextApi]_vars

\* ------------------------------------- proposeBlock against the engine
\* The same VM with proposeBlock taken statement by statement on the API
\* side, and an engine that takes a readiness message and then calls
\* BuildBlock, once for each message.

\* Variant: the notification is sent before the append.
ProposeOrder_notifyFirst == <<"NotifyBlockReady", "append">>

\* The statements of proposeBlock, in program order
ProposeOrder == <<"append", "NotifyBlockReady">>

\* One statement of proposeBlock(data)
ProposeStatement(stmt, data) ==
  IF stmt = "append"
  THEN /\ mempool' = Append(mempool, data)
       /\ toEngine' = toEngine
  ELSE /\ mempool' = mempool
       /\ toEngine' = NotifyBlockReady(toEngine)

\* The API side runs the next statement of its call, entering a new call
\* when none is in progress.
ApiStep ==
  \E d \in IF api = <<>> THEN Payloads ELSE {api.data} :
    LET done == IF api = <<>> THEN <<>> ELSE api.done
        stmt == ProposeOrder[Len(done) + 1]
        after == Append(done, stmt)
    IN /\ api = <<>> => Len(owed) < MaxMempool
       /\ ProposeStatement(stmt, d)
       /\ api' = IF Len(after) = Len(ProposeOrder) THEN <<>>
                 ELSE [data |-> d, done |-> after]
       /\ owed' = IF stmt = "append" THEN Append(owed, d) ELSE owed
       /\ last' = Result("proposeBlock", <<>>, Nil, <<>>, after)
       /\ UNCHANGED <<now, preferred, lastAccepted, vdb, db, taken>>

\* The engine takes a readiness message when it holds none.
EngineTake ==
  /\ taken = 0
  /\ EngineReceive
  /\ taken' = 1
  /\ UNCHANGED <<owed, api>>

\* The engine answers the message it holds with one BuildBlock call.
EngineBuild ==
  \E fault \in IF mempool = <<>> THEN {"none"} ELSE {"none", "marshal"} :
    /\ taken = 1
    /\ BuildBlock(fault)
    /\ taken' = 0
    /\ owed' = IF last'.err = Nil /\ owed # <<>> THEN Tail(owed) ELSE owed
    /\ UNCHANGED api

NextEngine ==
  \/ DoInitialize
  \/ ApiStep
  \/ EngineTake
  \/ EngineBuild
  \/ DoTick

SpecEngine == Init /\ [][NextEngine]_vars

\* ================================================================ claims
VerifyStep == last'.op = "Verify"
BuildStep == last'.op = "BuildBlock"
InitializeStep == last'.op = "Initialize"
ViewAfter == Overlay(vdb', db')

\* C1: for a block that is not Accepted and whose parent resolves, Verify
\* fails with TimestampTooEarly exactly when the block's timestamp is not
\* later than its parent's; a timestamp equal to the parent's is rejected.
C1_TooEarlyIffNotAfterParent ==
  [][(VerifyStep /\ ~last'.arg.id \in View.accepted /\ last'.arg.parent \in View.blocks)
       => (last'.err = TimestampTooEarly
             <=> last'.arg.ts <= GetBlock(last'.arg.parent).ts)]_vars

\* C2: for a block that is not Accepted, whose parent resolves and whose
\* timestamp is later than its parent's, Verify fails with TimestampTooLate
\* exactly when the timestamp is more than 3600 seconds ahead of the clock;
\* a timestamp of exactly now + 3600 is not rejected as too late.
C2_TooLateIffMoreThanHourAhead ==
  [][(/\ VerifyStep
      /\ ~last'.arg.id \in View.accepted
      /\ last'.arg.parent \in View.blocks
      /\ last'.arg.ts > GetBlock(last'.arg.parent).ts)
       => (last'.err = TimestampTooLate <=> last'.arg.ts > now + 3600)]_vars

\* C3: the k-th successful BuildBlock returns a block whose data is the
\* k-th payload proposed, however proposals and builds interleave.
C3_KthBuildReturnsKthProposal ==
  [][(BuildStep /\ last'.err = Nil)
       => (owed # <<>> /\ last'.blk[1].data = owed[1])]_vars

\* C4: BuildBlock on an empty mempool fails with EmptyMempool, returns no
\* block, sends no signal, and leaves the mempool, preferred, lastAccepted,
\* the store and the readiness channel unchanged.
C4_BuildOnEmptyMempool ==
  [][(BuildStep /\ mempool = <<>>)
       => /\ last'.err = EmptyMempool
          /\ last'.blk = <<>>
          /\ last'.trace = <<>>
          /\ UNCHANGED <<mempool, preferred, lastAccepted, vdb, db, toEngine>>]_vars

C4_Witness ==
  /\ last.op = "BuildBlock"
  /\ last.err = EmptyMempool
  /\ mempool = <<>>
  /\ db.initialized

\* C5: Initialize on a database whose initialized flag is set returns no
\* error, writes no genesis block, and leaves lastAccepted and preferred as
\* they were, whatever genesis payload it is given.
C5_InitializeIdempotent ==
  [][(InitializeStep /\ db.initialized)
       => /\ last'.err = Nil
          /\ last'.trace = <<>>
          /\ db' = db
          /\ ViewAfter.blocks \subseteq View.blocks
          /\ lastAccepted' = lastAccepted
          /\ preferred' = preferred]_vars

\* A second Initialize, given another payload than the stored genesis
\* block's, has returned without bootstrapping.
C5_Witness ==
  /\ last.op = "Initialize"
  /\ last.err = Nil
  /\ last.trace = <<>>
  /\ db.initialized
  /\ lastAccepted = preferred
  /\ \E id \in db.blocks : id[1] = Empty /\ id[2] # CopyToArr(last.arg)

\* C6: after a successful bootstrap the genesis block is stored with an
\* empty parent and timestamp 0, it is Accepted, lastAccepted and preferred
\* are its identity, the initialized flag is set, and all of it is in the
\* committed database with nothing left pending.
C6_GenesisBootstrap ==
  (last.op = "Initialize" /\ last.err = Nil /\ last.trace # <<>>)
    => /\ Len(last.arg) <= 32
       /\ last.blk # <<>>
       /\ LET g == last.blk[1]
          IN /\ g.parent = Empty
             /\ g.ts = 0
             /\ g.data = CopyToArr(last.arg)
             /\ g.id \in db.blocks
             /\ GetBlock(g.id) = g
             /\ g.id \in db.accepted
             /\ db.lastAccepted = g.id
             /\ lastAccepted = g.id
             /\ preferred = g.id
             /\ db.initialized
             /\ vdb = EmptyLayer

\* The scenario of 32 zero bytes
C6_Witness ==
  /\ last.op = "Initialize"
  /\ last.err = Nil
  /\ last.trace # <<>>
  /\ last.arg = Rep(32, 0)
  /\ lastAccepted = last.blk[1].id

\* C7: Initialize on an uninitialised database with a payload longer than
\* 32 bytes fails with InvalidGenesisData; afterwards no genesis block is
\* stored, the flag is unset, and lastAccepted and preferred are what they
\* were (unset on a VM that has not bootstrapped), so that a later Initialize
\* still takes the bootstrap path.
C7_InvalidGenesisData ==
  [][(InitializeStep /\ ~db.initialized /\ Len(last'.arg) > 32)
       => /\ last'.err = InvalidGenesisData
          /\ last'.trace = <<>>
          /\ ViewAfter.blocks = {}
          /\ ~ViewAfter.initialized
          /\ db' = db
          /\ lastAccepted' = lastAccepted
          /\ preferred' = preferred
          /\ (lastAccepted = Empty /\ preferred = Empty
                => lastAccepted' = Empty /\ preferred' = Empty)]_vars

C7_Witness ==
  /\ last.op = "Initialize"
  /\ last.err = InvalidGenesisData
  /\ Len(last.arg) = 33
  /\ ~View.initialized
  /\ View.blocks = {}
  /\ lastAccepted = Empty
  /\ preferred = Empty

\* C8: a successful BuildBlock removes exactly the front mempool entry and
\* returns a block on the preferred tip of the time of the call, carrying
\* the removed entry, stamped with the current second, and not verified:
\* nothing is put or committed.
C8_BuildBlockSuccess ==
  [][(BuildStep /\ last'.err = Nil)
       => /\ mempool # <<>>
          /\ mempool' = Tail(mempool)
          /\ Len(last'.blk) = 1
          /\ last'.blk[1].parent = preferred
          /\ last'.blk[1].data = Head(mempool)
          /\ last'.blk[1].ts = now
          /\ \A i \in 1..Len(last'.trace) : last'.trace[i] \notin {"SaveBlock", "Commit"}
          /\ UNCHANGED <<vdb, db, preferred, lastAccepted>>]_vars

\* A build from a mempool of two different payloads, after time has passed
C8_Witness ==
  /\ last.op = "BuildBlock"
  /\ last.err = Nil
  /\ Len(mempool) = 1
  /\ mempool[1] # last.blk[1].data
  /\ last.blk[1].parent = preferred
  /\ preferred # Empty
  /\ last.blk[1].ts = now
  /\ now > 1

\* C9: Verify on the block BuildBlock has just returned, at the same
\* wall-clock second and with the preferred tip stored, succeeds and leaves
\* the block in the store (unless the database reports an error).
C9_BuiltBlockVerifies ==
  [][(/\ VerifyStep
      /\ last.op = "BuildBlock"
      /\ last.err = Nil
      /\ last'.arg = last.blk[1]
      /\ preferred \in View.blocks
      /\ last'.err # PersistenceError)
       => (last'.err = Nil /\ last'.arg.id \in ViewAfter.blocks)]_vars

\* C10: Verify on an Accepted block returns success without resolving the
\* parent, without the timestamp checks, and without a put or a commit.
C10_VerifyAcceptedIsNoOp ==
  [][(VerifyStep /\ last'.arg.id \in View.accepted)
       => /\ last'.err = Nil
          /\ last'.trace = <<>>
          /\ UNCHANGED <<vdb, db, lastAccepted, preferred, mempool, toEngine>>]_vars

\* Verify of the accepted genesis block, whose parent does not resolve
C10_Witness ==
  /\ last.op = "Verify"
  /\ last.err = Nil
  /\ last.trace = <<>>
  /\ last.arg.id \in View.accepted
  /\ ~last.arg.parent \in View.blocks

\* C11: a Verify that returns success on a block that is not Accepted has
\* put the block in the store under its own identity and committed it, and
\* has not made it Accepted nor changed lastAccepted or preferred.
C11_VerifyStoresWithoutAccepting ==
  [][(VerifyStep /\ last'.err = Nil /\ ~last'.arg.id \in View.accepted)
       => /\ last'.arg.id \in db'.blocks
          /\ vdb' = EmptyLayer
          /\ ViewAfter.accepted = View.accepted
          /\ UNCHANGED <<lastAccepted, preferred>>]_vars

\* C12: the API propose operation appends the payload to the mempool and
\* signals readiness exactly when its argument decodes to 32 bytes; for any
\* other argument it returns the bad-data error and leaves the mempool and
\* the readiness channel unchanged.
C12_ApiProposeChecksLength ==
  [][(last'.op = "ProposeBlock")
       => LET f == FromString(last'.arg)
          IN IF ~f.err /\ Len(f.bytes) = 32
             THEN /\ last'.err = Nil
                  /\ mempool' = Append(mempool, CopyToArr(f.bytes))
                  /\ toEngine' = IF toEngine < ChanCap THEN toEngine + 1 ELSE toEngine
             ELSE /\ last'.err = errBadData
                  /\ UNCHANGED <<mempool, toEngine>>]_vars

\* A second payload has been proposed through the API and is queued behind
\* the first, with the readiness message on the channel
C12_Witness ==
  /\ last.op = "ProposeBlock"
  /\ last.err = Nil
  /\ Len(mempool) = 2
  /\ mempool[2] = CopyToArr(FromString(last.arg).bytes)
  /\ mempool[1] # mempool[2]
  /\ toEngine > 0

\* C13: every block Verify writes to the store has a timestamp strictly
\* greater than its parent's and, at the moment it is verified, no greater
\* than the wall clock plus one hour.
C13_ChainInvariant ==
  [][(VerifyStep /\ ViewAfter.blocks # View.blocks)
       => \A id \in ViewAfter.blocks \ View.blocks :
            /\ id = last'.arg.id
            /\ GetBlock(id).ts > GetBlock(GetBlock(id).parent).ts
            /\ GetBlock(id).ts <= now + 3600]_vars

\* C14: between calls, a non-empty mempool always has a readiness message
\* pending on the channel or taken by the engine and not yet answered; and
\* an engine that answers every message with one BuildBlock builds a block
\* for every payload proposed: once the mempool is drained, no proposed
\* payload is left without a block.
C14_NoLostWakeup ==
  api = <<>>
    => /\ mempool # <<>> => toEngine + taken >= 1
       /\ mempool = <<>> => owed = <<>>

\* C15: with append and pop-front mutually exclusive, no proposed payload
\* is lost, duplicated or reordered: the payloads proposed and not yet
\* handed to a built block are the payloads queued, in the same order.
C15_MempoolConservation == owed = mempool

\* C16: the readiness message of a proposeBlock call is sent only after
\* its append is done: at the step that sends it the call has appended its
\* payload, and unless another call ran in between the payload is the last
\* entry of the mempool, so that a BuildBlock of an engine that takes the
\* message finds it.
C16_SignalAfterAppend ==
  [][(/\ last'.op = "proposeBlock"
      /\ last'.trace # <<>>
      /\ last'.trace[Len(last'.trace)] = "NotifyBlockReady")
       => /\ api # <<>>
          /\ \E i \in 1..(Len(last'.trace) - 1) : last'.trace[i] = "append"
          /\ toEngine' >= 1
          /\ last.op = "proposeBlock"
               => mempool' # <<>> /\ mempool'[Len(mempool')] = api.data]_vars

\* A second proposal has sent its message behind its append, while the
\* engine holds the message of the first
C16_Witness ==
  /\ last.op = "proposeBlock"
  /\ last.trace = <<"append", "NotifyBlockReady">>
  /\ api = <<>>
  /\ Len(mempool) = 2
  /\ taken = 1
  /\ toEngine = 1

\* C17: when the put of the block or the commit fails during Verify, so
\* that the block is not in the committed store when Verify returns, Verify
\* returns PersistenceError and the block's status is unchanged; Verify
\* never returns success for a block whose put failed.
C17_PersistenceFailureReported ==
  [][(/\ VerifyStep
      /\ \E i \in 1..Len(last'.trace) : last'.trace[i] = "SaveBlock"
      /\ ~last'.arg.id \in db'.blocks)
       => /\ last'.err = PersistenceError
          /\ ViewAfter.accepted = View.accepted]_vars

\* C18: a Verify that fails validation (parent not resolved, timestamp too
\* early, timestamp too late) makes no put and no commit: the store,
\* lastAccepted, preferred and the mempool are unchanged, and the block is
\* not in the store afterwards.
C18_FailedVerifyWritesNothing ==
  [][(VerifyStep
        /\ last'.err \in {ParentLookupError, TimestampTooEarly, TimestampTooLate})
       => /\ \A i \in 1..Len(last'.trace) : last'.trace[i] \notin {"SaveBlock", "Commit"}
          /\ UNCHANGED <<vdb, db, lastAccepted, preferred, mempool>>
          /\ ~last'.arg.id \in ViewAfter.blocks]_vars

\* A block stamped too late was refused on a chain that already holds a
\* verified block, with a payload waiting in the mempool
C18_Witness ==
  /\ last.op = "Verify"
  /\ last.err = TimestampTooLate
  /\ ~last.arg.id \in View.blocks
  /\ last.arg.parent \in View.blocks
  /\ Cardinality(View.blocks) = 2
  /\ mempool # <<>>

\* C19: BuildBlock never changes preferred or lastAccepted, whether it
\* succeeds or fails; the two fields change only in Initialize and through
\* block acceptance, so proposeBlock, BuildBlock (with its NewBlock),
\* ParseBlock and Verify leave both as they were.
C19_TipsChangeOnlyByAcceptance ==
  [][/\ last'.op \in {"proposeBlock", "BuildBlock", "ParseBlock", "Verify"}
          => UNCHANGED <<preferred, lastAccepted>>
     /\ (preferred' # preferred \/ lastAccepted' # lastAccepted)
          => last'.op \in {"Initialize", "Accept"}]_vars

\* A block has been built on a tip that acceptance moved past genesis
C19_Witness ==
  /\ last.op = "BuildBlock"
  /\ last.err = Nil
  /\ last.blk[1].parent = preferred
  /\ preferred = lastAccepted
  /\ preferred # Empty
  /\ preferred[1] # Empty

\* C20: a payload leaves the mempool only as the data of a block that
\* BuildBlock returns; when BuildBlock fails with SerializationError on a
\* non-empty mempool, the front payload is still queued afterwards.
C20_PayloadConservedOnFailure ==
  [][/\ (BuildStep /\ mempool # <<>> /\ last'.err = SerializationError)
          => mempool' = mempool
     /\ Len(mempool') < Len(mempool)
          => /\ BuildStep
             /\ last'.err = Nil
             /\ last'.blk[1].data = Head(mempool)
             /\ mempool' = Tail(mempool)]_vars
====
